---- MODULE Spec2Model ----
(***************************************************************************)
(* MySQLHelper: the statement builder (components.py, class Query and its  *)
(* base Operators) and the database facade (backend.py, class MySQL).      *)
(*                                                                         *)
(* A Python str is modelled as a Text: a sequence of tokens.  Raw names    *)
(* supplied by the caller are sequences of one-character tokens, so that   *)
(* code which iterates a str sees its characters; the keywords and         *)
(* separators the code writes itself ("SELECT ", ", ", "\n", ";") are one  *)
(* token each.  A Python exception is the name of its class.               *)
(***************************************************************************)
EXTENDS Integers, Sequences, FiniteSets, TLC

VARIABLES
    components,  \* Query.components: the clause buffer
    aliases,     \* Operators.memory["aliases"]: entity name -> alias
    conn,        \* the driver connection held by Connector.connector
    credentials, \* Connector.credentials: the stored credential mapping
    log,         \* the driver calls made by the last facade operation
    call,        \* the last call: its name and arguments
    ret,         \* the last call's outcome: exception raised, value returned
    pre          \* the clause buffer when the last call started

vars == <<components, aliases, conn, credentials, log, call, ret, pre>>

\* ------------------------------------------------------------------ bounds

\* clause fragments the buffer may hold before a clause method is called
MaxComponents == 3
\* literal values passed to one Values call
MaxValues == 2
\* fragments that failed operations may have left behind when a facade
\* operation starts
MaxStale == 1

\* ------------------------------------------------------------- Python str

NoError == "None"

RECURSIVE Join(_, _)
\* sep.join(parts); also the loops that append sep after every item but the last
Join(parts, sep) ==
    IF parts = <<>> THEN <<>>
    ELSE IF Len(parts) = 1 THEN parts[1]
    ELSE parts[1] \o sep \o Join(Tail(parts), sep)

RECURSIVE Replace1(_, _)
\* text.replace(tok, "") for a one-token needle
Replace1(text, tok) ==
    IF text = <<>> THEN <<>>
    ELSE IF Head(text) = tok THEN Replace1(Tail(text), tok)
    ELSE <<Head(text)>> \o Replace1(Tail(text), tok)

RECURSIVE Replace2(_, _, _)
\* text.replace(a + b, "") for a needle of two adjacent tokens
Replace2(text, a, b) ==
    IF Len(text) < 2 THEN text
    ELSE IF text[1] = a /\ text[2] = b THEN Replace2(Tail(Tail(text)), a, b)
    ELSE <<Head(text)>> \o Replace2(Tail(text), a, b)

RECURSIVE Split(_, _)
\* text.split(sep): the pieces between the occurrences of sep; never empty
Split(text, sep) ==
    IF text = <<>> THEN << <<>> >>
    ELSE LET rest == Split(Tail(text), sep)
         IN  IF Head(text) = sep THEN << <<>> >> \o rest
             ELSE << <<Head(text)>> \o rest[1] >> \o Tail(rest)

\* -------------------------------------------------------------- operands

Str(t) == [type |-> "str", s |-> t]
Num(t) == [type |-> "int", s |-> t]
PyNone == [type |-> "None"]
PyList(xs) == [type |-> "list", items |-> xs]

\* ColumnType(name, datatype, autoincrement, constraint, check, default)
ColumnType(n, dt, ai, cons, chk, dflt) ==
    [type |-> "ColumnType", name |-> n, datatype |-> dt, autoincrement |-> ai,
     constraint |-> cons, check |-> chk, default |-> dflt]

\* ConstraintType(foreign_key, references, references_column, constraint_name,
\*                on_delete, on_update, unique)
ConstraintType(fk, ref, refcol, cname, od, ou, uq) ==
    [type |-> "ConstraintType", foreign_key |-> fk, references |-> ref,
     references_column |-> refcol, constraint_name |-> cname, on_delete |-> od,
     on_update |-> ou, unique |-> uq]

\* Table(name, columns, if_not_exists, constraints)
Table(n, cols, ine, cons) ==
    [type |-> "Table", name |-> n, columns |-> cols, if_not_exists |-> ine,
     constraints |-> cons]

\* AggregateFunctionType(type, column)
AggregateFunctionType(fn, col) ==
    [type |-> "AggregateFunctionType", fn |-> fn, column |-> col]

\* OperatorMethod(query, id)
OperatorMethod(q, id) == [type |-> "OperatorMethod", query |-> q, id |-> id]

\* MySqlMethod(query, name, data)
MySqlMethod(q, n, d) == [type |-> "MySqlMethod", query |-> q, name |-> n, data |-> d]

\* string_wrapper(value)
string_wrapper(value) ==
    IF value.type = "str" THEN <<"'">> \o value.s \o <<"'">> ELSE value.s

\* AggregateFunctionType.get (type names in the model are already upper case)
AggregateGet(a) ==
    a.fn \o <<"(">>
         \o (IF a.column.type = "ColumnType" THEN a.column.name ELSE a.column.s)
         \o <<")">>

\* ------------------------------------------------------- clause fragments

\* SelectQuery(query), FromQuery(query), ...: the class is the type
Fragment(kind, query) == [type |-> kind, query |-> query]

\* __str__ of a fragment
FragStr(component) == component.query

\* the result of a clause method: the exception raised (or NoError), the
\* buffer it leaves, the fragment it returns
Ok(comps, frag) == [err |-> NoError, components |-> comps, frag |-> frag]
Raise(e, comps) == [err |-> e, components |-> comps, frag |-> Fragment("None", <<>>)]

\* if record: self.components.append(frag)
Record(comps, frag, record) == IF record THEN Append(comps, frag) ELSE comps

\* the text an operand contributes in Select/Insert/groupBy/orderBy loops
ColumnText(column, kinds) ==
    IF column.type = "ColumnType" /\ "ColumnType" \in kinds THEN column.name
    ELSE IF column.type = "AggregateFunctionType" /\ "AggregateFunctionType" \in kinds
         THEN AggregateGet(column)
    ELSE IF column.type = "str" /\ "str" \in kinds THEN column.s
    ELSE <<>>

\* build that joins the fragments last to first
build_text_reversed(comps) ==
    Join([i \in 1..Len(comps) |-> FragStr(comps[Len(comps) + 1 - i])], <<"\n">>)
        \o <<";">>

\* Query.build's joined text
build_text(comps) ==
    Join([i \in 1..Len(comps) |-> FragStr(comps[i])], <<"\n">>) \o <<";">>

\* build that forgets to reset the buffer
build_components_kept(comps) == comps

\* Query.build's buffer afterwards
build_components(comps) == <<>>

\* Select that renders its columns with no separator between them
Select_unseparated(comps, columns, record) ==
    IF columns.type # "list" THEN Raise("AssertionError", comps)
    ELSE IF Len(columns.items) = 0 THEN Raise("TypeError", comps)
    ELSE LET query == <<"SELECT ">> \o
                 Join([i \in 1..Len(columns.items) |->
                         ColumnText(columns.items[i],
                                    {"ColumnType", "AggregateFunctionType", "str"})],
                      <<>>)
             frag == Fragment("SelectQuery", query)
         IN  Ok(Record(comps, frag, record), frag)

\* Query.Select
Select(comps, columns, record) ==
    IF columns.type # "list" THEN Raise("AssertionError", comps)
    ELSE IF Len(columns.items) = 0 THEN Raise("TypeError", comps)
    ELSE LET query == <<"SELECT ">> \o
                 Join([i \in 1..Len(columns.items) |->
                         ColumnText(columns.items[i],
                                    {"ColumnType", "AggregateFunctionType", "str"})],
                      <<", ">>)
             frag == Fragment("SelectQuery", query)
         IN  Ok(Record(comps, frag, record), frag)

\* Query.Insert
Insert(comps, table, columns, record) ==
    IF \E i \in 1..Len(columns) : columns[i].type = "OperatorMethod"
    THEN Raise("AssertionError", comps)
    ELSE LET query == <<"INSERT INTO ">>
                 \o (IF table.type = "Table" THEN table.name
                     ELSE IF table.type = "str" THEN table.s ELSE <<>>)
                 \o <<"(">>
                 \o Join([i \in 1..Len(columns) |->
                            ColumnText(columns[i], {"ColumnType", "str"})], <<", ">>)
                 \o <<")">>
             frag == Fragment("InsertQuery", query)
         IN  Ok(Record(comps, frag, record), frag)

\* InsertQuery.__columns__
Columns__(query) ==
    Split(Replace1(Replace2(query, "INSERT INTO ", "("), ")"), ", ")

\* len(x): a list has a length; MySqlMethod defines no __len__
HasLen(x) == x.type = "list"

\* Query.Values
Values(comps, values, record) ==
    IF comps = <<>> THEN Raise("IndexError", comps)
    ELSE IF comps[Len(comps)].type # "InsertQuery" THEN Raise("AssertionError", comps)
    ELSE IF ~HasLen(values) THEN Raise("TypeError", comps)
    ELSE IF Len(Columns__(comps[Len(comps)].query)) # Len(values.items)
         THEN Raise("AssertionError", comps)
    ELSE IF values.type = "MySqlMethod" /\ values.name = "select"
         THEN Ok(Record(comps, values.data, record), values.data)
    ELSE LET query == <<"VALUES (">>
                 \o Join([i \in 1..Len(values.items) |-> string_wrapper(values.items[i])],
                         <<", ">>)
                 \o <<")">>
             frag == Fragment("ValueQuery", query)
         IN  Ok(Record(comps, frag, record), frag)

\* Query.From
From(comps, table, record) ==
    LET query == <<"FROM ">>
             \o (IF table.type = "Table" THEN table.name
                 ELSE IF table.type = "str" THEN table.s
                 ELSE IF table.type = "SelectQuery" THEN table.query
                 ELSE <<>>)
        frag == Fragment("FromQuery", query)
    IN  Ok(Record(comps, frag, record), frag)

\* Query.Where: the list branch tests the unbound local `condition`
Where(comps, conditions, record) ==
    IF conditions.type \notin {"str", "OperatorMethod"}
    THEN Raise("UnboundLocalError", comps)
    ELSE LET query == <<"WHERE ">>
                 \o (IF conditions.type = "str" THEN conditions.s ELSE conditions.query)
             frag == Fragment("WhereQuery", query)
         IN  Ok(Record(comps, frag, record), frag)

\* Query.Update
Update(comps, table, record) ==
    LET query == <<"UPDATE ">>
             \o (IF table.type = "Table" THEN table.name
                 ELSE IF table.type = "str" THEN table.s ELSE <<>>)
        frag == Fragment("UpdateQuery", query)
    IN  Ok(Record(comps, frag, record), frag)

\* Query.Set: update is a list of <<column, value>> pairs
Set(comps, update, record) ==
    LET query == <<"SET ">>
             \o Join([i \in 1..Len(update) |->
                        IF update[i][1].type \in {"ColumnType", "str"}
                        THEN ColumnText(update[i][1], {"ColumnType", "str"})
                                 \o <<"=">> \o string_wrapper(update[i][2])
                        ELSE <<>>],
                     <<", ">>)
        frag == Fragment("SetQuery", query)
    IN  Ok(Record(comps, frag, record), frag)

\* Query.Delete
Delete(comps, _from, where, record) ==
    LET query == <<"DELETE ">>
             \o (IF _from.type = "FromQuery" THEN _from.query \o <<" ">>
                 ELSE IF _from.type = "str" THEN <<"FROM ">> \o _from.s \o <<" ">>
                 ELSE <<>>)
             \o (IF where.type = "WhereQuery" THEN where.query
                 ELSE IF where.type = "str" THEN <<"WHERE ">> \o where.s
                 ELSE <<>>)
        frag == Fragment("DeleteQuery", query)
    IN  Ok(Record(comps, frag, record), frag)

\* for ... in enumerate(x): a list yields its items, a str its characters;
\* the other operand types are not iterable
Iterable(x) == x.type \in {"list", "str"}
Items(x) ==
    IF x.type = "list" THEN x.items
    ELSE [i \in 1..Len(x.s) |-> Str(<<x.s[i]>>)]

\* Query.groupBy
groupBy(comps, columns, record) ==
    IF ~Iterable(columns) THEN Raise("TypeError", comps)
    ELSE LET items == Items(columns)
             query == <<"GROUP BY ">>
                 \o Join([i \in 1..Len(items) |->
                            ColumnText(items[i], {"ColumnType", "str"})], <<", ">>)
             frag == Fragment("GroupByQuery", query)
         IN  Ok(Record(comps, frag, record), frag)

\* Query.Having
Having(comps, conditions, record) ==
    LET query == <<"HAVING ">>
             \o (IF conditions.type = "str" THEN conditions.s
                 ELSE IF conditions.type = "list"
                 THEN Join([i \in 1..Len(conditions.items) |->
                              IF conditions.items[i].type = "str"
                              THEN conditions.items[i].s
                              ELSE IF conditions.items[i].type = "OperatorMethod"
                              THEN conditions.items[i].query
                              ELSE <<>>],
                           <<", ">>)
                 ELSE <<>>)
        frag == Fragment("HavingQuery", query)
    IN  Ok(Record(comps, frag, record), frag)

\* Query.orderBy
orderBy(comps, columns, ascending, record) ==
    IF ~Iterable(columns) THEN Raise("TypeError", comps)
    ELSE LET items == Items(columns)
             query == <<"ORDER BY ">>
                 \o Join([i \in 1..Len(items) |->
                            ColumnText(items[i],
                                       {"ColumnType", "AggregateFunctionType", "str"})
                                \o (IF ascending THEN <<>> ELSE <<" DESC">>)],
                         <<", ">>)
             frag == Fragment("OrderByQuery", query)
         IN  Ok(Record(comps, frag, record), frag)

\* ---------------------------------------------------- schema descriptors

\* constants.mysql_data_types.values()
mysql_data_types ==
    {"TINYINT", "SMALLINT", "MEDIUMINT", "INT", "INTEGER", "BIGINT", "DECIMAL", "DEC",
     "FLOAT", "DOUBLE", "DOUBLE PRECISION", "REAL", "BIT", "BOOLEAN", "BOOL", "DATE",
     "DATETIME", "TIMESTAMP", "TIME", "YEAR", "CHAR", "VARCHAR", "TINYTEXT", "TEXT",
     "MEDIUMTEXT", "LONGTEXT", "BINARY", "VARBINARY", "TINYBLOB", "BLOB", "MEDIUMBLOB",
     "LONGBLOB", "ENUM", "SET", "GEOMETRY", "POINT", "LINESTRING", "POLYGON",
     "MULTIPOINT", "MULTILINESTRING", "MULTIPOLYGON", "GEOMETRYCOLLECTION", "JSON"}

\* constants.on_update_delete.values()
on_update_delete == {"CASCADE", "SET NULL", "RESTRICT", "NO ACTION", "SET DEFAULT"}

\* constants.constraints.values()
constraints == {"NOT NULL", "NULL", "PRIMARY KEY"}

\* str.upper(), token by token, over the lower-case tokens of the model
UpperTok(t) ==
    CASE t = "int" -> "INT"
      [] t = "varchar" -> "VARCHAR"
      [] t = "foo" -> "FOO"
      [] t = "cascade" -> "CASCADE"
      [] t = "set null" -> "SET NULL"
      [] t = "not null" -> "NOT NULL"
      [] t = "select " -> "SELECT "
      [] t = "SeLeCt " -> "SELECT "
      [] OTHER -> t
Upper(text) == [i \in 1..Len(text) |-> UpperTok(text[i])]

\* the tokens that are one word of [A-Za-z0-9_] characters
IsWord(t) ==
    t \in {"INT", "int", "VARCHAR", "varchar", "FOO", "foo", "DOUBLE", "PRECISION",
           "TEXT", "DATE"}

\* extract_data_type: the leading word, or None
extract_data_type(column_definition) ==
    IF column_definition # <<>> /\ IsWord(column_definition[1])
    THEN column_definition[1] ELSE "None"

\* the result of a get(): the exception raised (or NoError) and the text
Text(t) == [err |-> NoError, text |-> t]
Fail(e) == [err |-> e, text |-> <<>>]

\* ColumnType.get that does not look at the datatype
ColumnGet_any_datatype(c) ==
    IF c.constraint.type # "None" /\ c.constraint.s \notin {<<k>> : k \in constraints}
    THEN Fail("AssertionError")
    ELSE Text(c.name \o <<" ">> \o c.datatype
              \o (IF c.autoincrement THEN <<" AUTO_INCREMENT">> ELSE <<>>)
              \o (IF c.constraint.type # "None" THEN <<" ">> \o c.constraint.s ELSE <<>>)
              \o (IF c.check.type # "None"
                  THEN <<" CHECK(">> \o c.check.s \o <<")">> ELSE <<>>)
              \o (IF c.default.type # "None"
                  THEN <<" DEFAULT ">> \o string_wrapper(c.default) ELSE <<>>))

\* ColumnType.get that renders CHECK before the constraint
ColumnGet_check_first(c) ==
    IF extract_data_type(Upper(c.datatype)) \notin mysql_data_types
    THEN Fail("AssertionError")
    ELSE IF c.constraint.type # "None" /\ c.constraint.s \notin {<<k>> : k \in constraints}
    THEN Fail("AssertionError")
    ELSE Text(c.name \o <<" ">> \o c.datatype
              \o (IF c.autoincrement THEN <<" AUTO_INCREMENT">> ELSE <<>>)
              \o (IF c.check.type # "None"
                  THEN <<" CHECK(">> \o c.check.s \o <<")">> ELSE <<>>)
              \o (IF c.constraint.type # "None" THEN <<" ">> \o c.constraint.s ELSE <<>>)
              \o (IF c.default.type # "None"
                  THEN <<" DEFAULT ">> \o string_wrapper(c.default) ELSE <<>>))

\* ColumnType.get
ColumnGet(c) ==
    IF extract_data_type(Upper(c.datatype)) \notin mysql_data_types
    THEN Fail("AssertionError")
    ELSE IF c.constraint.type # "None" /\ c.constraint.s \notin {<<k>> : k \in constraints}
    THEN Fail("AssertionError")
    ELSE Text(c.name \o <<" ">> \o c.datatype
              \o (IF c.autoincrement THEN <<" AUTO_INCREMENT">> ELSE <<>>)
              \o (IF c.constraint.type # "None" THEN <<" ">> \o c.constraint.s ELSE <<>>)
              \o (IF c.check.type # "None"
                  THEN <<" CHECK(">> \o c.check.s \o <<")">> ELSE <<>>)
              \o (IF c.default.type # "None"
                  THEN <<" DEFAULT ">> \o string_wrapper(c.default) ELSE <<>>))

\* ConstraintType.get
ConstraintGet(k) ==
    IF k.on_delete.type # "None"
          /\ Upper(k.on_delete.s) \notin {<<a>> : a \in on_update_delete}
    THEN Fail("AssertionError")
    ELSE IF k.on_update.type # "None"
          /\ Upper(k.on_update.s) \notin {<<a>> : a \in on_update_delete}
    THEN Fail("AssertionError")
    ELSE Text((IF k.constraint_name.type # "None"
               THEN <<"CONSTRAINT ">> \o k.constraint_name.s \o <<"\n\t">> ELSE <<>>)
              \o <<"FOREIGN KEY (">> \o k.foreign_key \o <<") \n">>
              \o <<"REFERENCES ">> \o k.references \o <<"(">>
                                  \o k.references_column \o <<")\n">>
              \o (IF k.on_delete.type # "None"
                  THEN <<"ON DELETE ">> \o k.on_delete.s \o <<"\n">> ELSE <<>>)
              \o (IF k.on_update.type # "None"
                  THEN <<"ON UPDATE ">> \o k.on_update.s \o <<"\n">> ELSE <<>>)
              \o (IF k.unique.type # "None"
                  THEN <<"UNIQUE (">> \o Join(k.unique.items, <<", ">>) \o <<")">>
                  ELSE <<>>))

\* the first exception a list comprehension [x.get() for x in xs] raises
FirstError(gets) ==
    IF \A i \in 1..Len(gets) : gets[i].err = NoError THEN NoError
    ELSE gets[CHOOSE i \in 1..Len(gets) :
                  /\ gets[i].err # NoError
                  /\ \A j \in 1..(i - 1) : gets[j].err = NoError].err

\* Table.get
TableGet(t) ==
    IF t.columns.type # "list" THEN Fail("TypeError")
    ELSE
    LET columns == [i \in 1..Len(t.columns.items) |-> ColumnGet(t.columns.items[i])]
        given == t.constraints.type # "None"
        cons == IF given
                THEN [i \in 1..Len(t.constraints.items) |->
                        ConstraintGet(t.constraints.items[i])]
                ELSE <<>>
    IN  IF FirstError(columns) # NoError THEN Fail(FirstError(columns))
        ELSE IF FirstError(cons) # NoError THEN Fail(FirstError(cons))
        ELSE Text(<<"CREATE TABLE ">>
                  \o (IF t.if_not_exists THEN <<"IF NOT EXISTS ">> ELSE <<>>)
                  \o t.name \o <<"(\n">>
                  \o Join([i \in 1..Len(columns) |-> columns[i].text], <<",\n">>)
                  \o (IF given THEN <<",\n">> ELSE <<"\n">>)
                  \o (IF given
                      THEN Join([i \in 1..Len(cons) |-> cons[i].text], <<",\n">>)
                               \o <<");">>
                      ELSE <<");">>))

\* Query.createTable
createTable(table) == TableGet(table)

\* Query.dropTable
dropTable(table) ==
    <<"DROP TABLE ">> \o (IF table.type = "Table" THEN table.name ELSE table.s) \o <<";">>

\* Query.Constraints
Constraints(comps, table, record) ==
    IF table.constraints.type # "list" THEN Raise("TypeError", comps)
    ELSE LET gets == [i \in 1..Len(table.constraints.items) |->
                        ConstraintGet(table.constraints.items[i])]
         IN  IF FirstError(gets) # NoError THEN Raise(FirstError(gets), comps)
             ELSE LET query == Join([i \in 1..Len(gets) |-> gets[i].text], <<",\n">>)
                      frag == Fragment("ConstraintQuery", query)
                  IN  Ok(Record(comps, frag, record), frag)

\* ------------------------------------------------------------- operators

\* an alias store that keeps the first alias recorded for a key
AliasSet_keep_first(al, key, alias) ==
    [e \in DOMAIN al \cup {key} |-> IF e \in DOMAIN al THEN al[e] ELSE alias]

\* dict.get(key) on the alias map: the alias, or None
AliasOf(al, key) == IF key \in DOMAIN al THEN Str(al[key]) ELSE PyNone

\* self.memory["aliases"][key] = alias
AliasSet(al, key, alias) ==
    [e \in DOMAIN al \cup {key} |-> IF e = key THEN alias ELSE al[e]]

\* AS whose prefix mode renders the alias as a suffix
AS_prefix_as_suffix(al, entity, alias, _type) ==
    LET suffix == IF _type = 1 THEN <<" AS ">> \o alias ELSE <<" ">> \o alias
        prefix == <<>>
    IN  IF entity.type \in {"ColumnType", "Table"}
        THEN [err |-> NoError, aliases |-> AliasSet(al, entity.name, alias),
              frag |-> OperatorMethod(prefix \o entity.name \o suffix, "AS")]
        ELSE IF entity.type = "AggregateFunctionType"
        THEN [err |-> NoError, aliases |-> al,
              frag |-> OperatorMethod(prefix \o AggregateGet(entity) \o suffix, "AS")]
        ELSE IF entity.type = "str"
        THEN [err |-> NoError, aliases |-> AliasSet(al, entity.s, alias),
              frag |-> OperatorMethod(prefix \o entity.s \o suffix, "AS")]
        ELSE IF entity.type = "SelectQuery" /\ _type = 3
        THEN [err |-> "AssertionError", aliases |-> al, frag |-> PyNone]
        ELSE [err |-> NoError, aliases |-> al,
              frag |-> OperatorMethod(<<"(">> \o entity.query \o <<")">> \o suffix, "AS")]

\* Operators.AS: the exception, the alias map afterwards, the OperatorMethod
AS(al, entity, alias, _type) ==
    LET suffix == IF _type = 1 THEN <<" AS ">> \o alias
                  ELSE IF _type = 2 THEN <<" ">> \o alias ELSE <<>>
        prefix == IF _type = 3 THEN alias \o <<".">> ELSE <<>>
    IN  IF entity.type \in {"ColumnType", "Table"}
        THEN [err |-> NoError, aliases |-> AliasSet(al, entity.name, alias),
              frag |-> OperatorMethod(prefix \o entity.name \o suffix, "AS")]
        ELSE IF entity.type = "AggregateFunctionType"
        THEN [err |-> NoError, aliases |-> al,
              frag |-> OperatorMethod(prefix \o AggregateGet(entity) \o suffix, "AS")]
        ELSE IF entity.type = "str"
        THEN [err |-> NoError, aliases |-> AliasSet(al, entity.s, alias),
              frag |-> OperatorMethod(prefix \o entity.s \o suffix, "AS")]
        ELSE IF entity.type = "SelectQuery" /\ _type = 3
        THEN [err |-> "AssertionError", aliases |-> al, frag |-> PyNone]
        ELSE IF entity.type = "SelectQuery"
        THEN [err |-> NoError, aliases |-> al,
              frag |-> OperatorMethod(<<"(">> \o entity.query \o <<")">> \o suffix, "AS")]
        ELSE [err |-> "UnboundLocalError", aliases |-> al, frag |-> PyNone]

\* the name a JOIN argument is rendered and looked up by
NameOf(x) == IF x.type \in {"Table", "ColumnType"} THEN x.name ELSE x.s

\* JOIN that never qualifies its join columns
JOIN_unqualified(al, _type, left_table, right_table, left_on, right_on) ==
    OperatorMethod(
        NameOf(left_table) \o <<" ">> \o _type \o <<" JOIN ">>
            \o NameOf(right_table) \o <<" ">>
            \o <<"ON ">> \o NameOf(left_on) \o <<" = ">> \o NameOf(right_on),
        "JOIN")

\* Operators.JOIN
JOIN(al, _type, left_table, right_table, left_on, right_on) ==
    LET left_table_alias == AliasOf(al, NameOf(left_table))
        right_table_alias == AliasOf(al, NameOf(right_table))
    IN  OperatorMethod(
            NameOf(left_table) \o <<" ">> \o _type \o <<" JOIN ">>
                \o NameOf(right_table) \o <<" ">>
                \o <<"ON ">>
                \o (IF left_table_alias.type # "None"
                    THEN left_table_alias.s \o <<".">> ELSE <<>>)
                \o NameOf(left_on) \o <<" = ">>
                \o (IF right_table_alias.type # "None"
                    THEN right_table_alias.s \o <<".">> ELSE <<>>)
                \o NameOf(right_on),
            "JOIN")

\* datetime(year, month, day, hour, minute, second)
datetime(year, month, day, hour, minute, second) ==
    [type |-> "datetime", year |-> year, month |-> month, day |-> day, hour |-> hour,
     minute |-> minute, second |-> second]

RECURSIVE Digits(_, _)
\* the decimal digits of n, zero-padded to width characters
Digits(n, width) ==
    IF width = 0 THEN <<>>
    ELSE Digits(n \div 10, width - 1)
             \o <<(<<"0", "1", "2", "3", "4", "5", "6", "7", "8", "9">>)[(n % 10) + 1]>>

\* datetime.strftime(fmt): each directive of fmt is replaced by its field,
\* every other character of fmt is kept
strftime(dt, fmt) ==
    LET field(t) == CASE t = "%Y" -> Digits(dt.year, 4)
                      [] t = "%m" -> Digits(dt.month, 2)
                      [] t = "%d" -> Digits(dt.day, 2)
                      [] t = "%H" -> Digits(dt.hour, 2)
                      [] t = "%M" -> Digits(dt.minute, 2)
                      [] t = "%S" -> Digits(dt.second, 2)
                      [] OTHER -> <<t>>
    IN  Join([i \in 1..Len(fmt) |-> field(fmt[i])], <<>>)

\* a < b for datetimes
Earlier(a, b) ==
    LET key(x) == <<x.year, x.month, x.day, x.hour, x.minute, x.second>>
    IN  \E i \in 1..6 : /\ key(a)[i] < key(b)[i]
                         /\ \A j \in 1..(i - 1) : key(a)[j] = key(b)[j]

\* f"{value}" of a bound after the strftime step
BoundText(value, fmt) ==
    IF value.type = "datetime" THEN strftime(value, fmt) ELSE value.s

\* a BETWEEN_AND that puts the earlier of two datetime bounds first
BETWEEN_AND_sorted(column, left_value, right_value, fmt) ==
    LET swap == /\ left_value.type = "datetime" /\ right_value.type = "datetime"
                /\ Earlier(right_value, left_value)
        lo == IF swap THEN right_value ELSE left_value
        hi == IF swap THEN left_value ELSE right_value
        bound == column.type \in {"ColumnType", "AggregateFunctionType", "str"}
    IN  [err |-> IF bound THEN NoError ELSE "UnboundLocalError",
         value |-> IF bound
                   THEN OperatorMethod(
                       ColumnText(column, {"ColumnType", "AggregateFunctionType", "str"})
                           \o <<" BETWEEN ">> \o BoundText(lo, fmt)
                           \o <<" AND ">> \o BoundText(hi, fmt),
                       "BETWEEN_AND")
                   ELSE PyNone]

\* Operators.BETWEEN_AND: a column of another type leaves `query` unbound
\* (UnboundLocalError at the return)
BETWEEN_AND(column, left_value, right_value, fmt) ==
    LET left == BoundText(left_value, fmt)
        right == BoundText(right_value, fmt)
        bound == column.type \in {"ColumnType", "AggregateFunctionType", "str"}
    IN  [err |-> IF bound THEN NoError ELSE "UnboundLocalError",
         value |-> IF bound
                   THEN OperatorMethod(
                       ColumnText(column, {"ColumnType", "AggregateFunctionType", "str"})
                           \o <<" BETWEEN ">> \o left \o <<" AND ">> \o right,
                       "BETWEEN_AND")
                   ELSE PyNone]

\* --------------------------------------------------------------- facade

\* Connector.__ALLOWED_KEYS__
ALLOWED_KEYS == {"host", "user", "password", "database", "port"}

\* a Connector.__init__ that keeps the allowed entries of a mapping
Connector__init__keeps_allowed(supplied) ==
    [key \in DOMAIN supplied \cap ALLOWED_KEYS |-> supplied[key]]

\* Connector.__init__: self.credentials after construction from a mapping
Connector__init__(supplied) ==
    IF \A key \in DOMAIN supplied : key \in ALLOWED_KEYS
    THEN [key \in DOMAIN supplied |-> supplied[key]]
    ELSE [key \in {} |-> ""]

\* the mapping the facade of the other specifications is constructed with
DefaultCredentials == [host |-> "h", user |-> "u", password |-> "p", database |-> "d"]

\* one call on the driver collaborator, with the statement text it carries
DriverCall(name, arg) == [call |-> name, arg |-> arg]

\* the rows cursor.fetchall() hands back
Rows == Fragment("list", <<"rows">>)
NoRows == Fragment("list", <<>>)

\* query.upper().startswith("SELECT")
IsSelectText(text) ==
    text # <<>> /\ UpperTok(text[1]) \in {"SELECT ", "SELECT"}

\* what cursor.execute is handed: the text of a str, else the statement object
Operation(query) == IF query.type = "str" THEN query.s ELSE query

\* isinstance(query, SelectQuery) or query.upper().startswith("SELECT"); a typed
\* statement that is no SelectQuery has no upper()
IsSelect(query) ==
    IF query.type = "SelectQuery" THEN [err |-> NoError, select |-> TRUE]
    ELSE IF query.type = "str" THEN [err |-> NoError, select |-> IsSelectText(query.s)]
    ELSE [err |-> "AttributeError", select |-> FALSE]

\* EXECUTE that returns without closing the connection
EXECUTE_unclosed(c, query, fault) ==
    LET opened == <<DriverCall("_open_connection", <<>>), DriverCall("cursor", <<>>),
                    DriverCall("execute", Operation(query))>>
    IN  IF fault = "execute"
        THEN [err |-> "DriverError", conn |-> "open", log |-> opened, results |-> NoRows]
        ELSE [err |-> NoError, conn |-> "open",
              log |-> Append(opened, DriverCall("cursor.close", <<>>)),
              results |-> NoRows]

\* MySQL.EXECUTE on a str or a typed statement; fault names the driver call
\* that raises
EXECUTE(c, query, fault) ==
    LET opened == <<DriverCall("_open_connection", <<>>), DriverCall("cursor", <<>>),
                    DriverCall("execute", Operation(query))>>
        closing == <<DriverCall("cursor.close", <<>>), DriverCall("close", <<>>)>>
        sel == IsSelect(query)
    IN  IF fault = "execute"
        THEN [err |-> "DriverError", conn |-> "open", log |-> opened, results |-> NoRows]
        ELSE IF sel.err # NoError
        THEN [err |-> sel.err, conn |-> "open", log |-> opened, results |-> NoRows]
        ELSE IF sel.select /\ fault = "fetchall"
        THEN [err |-> "DriverError", conn |-> "open",
              log |-> Append(opened, DriverCall("fetchall", <<>>)), results |-> NoRows]
        ELSE IF sel.select
        THEN [err |-> NoError, conn |-> "closed",
              log |-> Append(opened, DriverCall("fetchall", <<>>)) \o closing,
              results |-> Rows]
        ELSE [err |-> NoError, conn |-> "closed", log |-> opened \o closing,
              results |-> NoRows]

\* the outcome of a facade operation that raised before reaching the driver
Raised(e, comps, c) ==
    [err |-> e, components |-> comps, conn |-> c, log |-> <<>>, value |-> PyNone]

\* query = self.query.build(); self.EXECUTE(query); return value
BuildAndExecute(comps, c, fault, name) ==
    LET query == build_text(comps)
        ex == EXECUTE(c, Str(query), fault)
    IN  [err |-> ex.err, components |-> build_components(comps), conn |-> ex.conn,
         log |-> ex.log,
         value |-> IF ex.err # NoError THEN PyNone
                   ELSE MySqlMethod(query, name,
                                    IF name = "select" THEN ex.results ELSE PyNone)]

\* bool(x) of an optional argument
Truthy(x) ==
    IF x.type = "None" THEN FALSE
    ELSE IF x.type = "str" THEN x.s # <<>>
    ELSE IF x.type \in {"list", "tuple"} THEN x.items # <<>>
    ELSE TRUE

\* the steps of a facade operation: step(buffer) runs only when the steps
\* before it raised nothing, on the buffer they left (r is evaluated once)
Then(r, step(_)) ==
    CHOOSE out \in {IF x.err # NoError THEN x ELSE step(x.components) : x \in {r}} : TRUE

\* the end of a facade operation whose clause steps ended with r
Finish(r, c, fault, name) ==
    CHOOSE out \in {IF x.err # NoError THEN Raised(x.err, x.components, c)
                    ELSE BuildAndExecute(x.components, c, fault, name) : x \in {r}} : TRUE

\* MySQL.SELECT
SELECT(comps, al, c, COLUMNS, FROM, WHERE, pJOIN, GROUP_BY, HAVING, ORDER_BY, fault) ==
    LET from(cs) ==
            IF Truthy(pJOIN)
            THEN IF Len(pJOIN.items) # 5 THEN Raise("ValueError", cs)
                 ELSE From(cs,
                           JOIN(al, pJOIN.items[1].s, pJOIN.items[2], pJOIN.items[3],
                                pJOIN.items[4], pJOIN.items[5]),
                           TRUE)
            ELSE From(cs,
                      IF FROM.type = "MySqlMethod" /\ FROM.name = "select"
                      THEN Str(FROM.query) ELSE FROM,
                      TRUE)
        where(cs) == IF Truthy(WHERE) THEN Where(cs, WHERE, TRUE) ELSE Ok(cs, PyNone)
        group(cs) == IF Truthy(GROUP_BY) THEN groupBy(cs, GROUP_BY, TRUE)
                     ELSE Ok(cs, PyNone)
        having(cs) == IF Truthy(HAVING) THEN Having(cs, HAVING, TRUE) ELSE Ok(cs, PyNone)
        order(cs) == IF Truthy(ORDER_BY) THEN orderBy(cs, ORDER_BY, TRUE, TRUE)
                     ELSE Ok(cs, PyNone)
    IN  Finish(Then(Then(Then(Then(Then(Select(comps, COLUMNS, TRUE),
                                        from), where), group), having), order),
               c, fault, "select")

\* INSERT that sends the INSERT clause before it binds the values
INSERT_sends_first(comps, c, INTO, COLUMNS, VALUES, fault) ==
    LET s1 == Insert(comps, INTO, COLUMNS, TRUE)
        ex == EXECUTE(c, Str(build_text(s1.components)), fault)
        s2 == Values(s1.components, VALUES, TRUE)
    IN  IF s2.err # NoError
        THEN [err |-> s2.err, components |-> s2.components, conn |-> ex.conn,
              log |-> ex.log, value |-> PyNone]
        ELSE BuildAndExecute(s2.components, c, fault, "insert")

\* MySQL.INSERT
INSERT(comps, c, INTO, COLUMNS, VALUES, fault) ==
    LET values(cs) == Values(cs, VALUES, TRUE)
    IN  Finish(Then(Insert(comps, INTO, COLUMNS, TRUE), values), c, fault, "insert")

\* MySQL.UPDATE
UPDATE(comps, c, TABLE, SET, WHERE, fault) ==
    LET set(cs) == Set(cs, SET, TRUE)
        where(cs) == IF Truthy(WHERE) THEN Where(cs, WHERE, TRUE) ELSE Ok(cs, PyNone)
    IN  Finish(Then(Then(Update(comps, TABLE, TRUE), set), where), c, fault, "update")

\* MySQL.DELETE: the inner From and Where are evaluated first, unrecorded
DELETE(comps, c, FROM, WHERE, fault) ==
    LET f == From(comps, FROM, FALSE)
        where(cs) == Where(cs, WHERE, FALSE)
        delete(cs) == Delete(cs, f.frag, where(cs).frag, TRUE)
    IN  Finish(Then(Then(f, where), delete), c, fault, "delete")

\* MySQL.CREATE_TABLE
CREATE_TABLE(comps, c, TABLE, COLUMNS, CONSTRAINTS, IF_NOT_EXISTS, fault) ==
    LET table == IF TABLE.type = "Table" THEN TABLE
                 ELSE Table(TABLE.s, COLUMNS, IF_NOT_EXISTS, CONSTRAINTS)
        query == createTable(table)
        ex == EXECUTE(c, Str(query.text), fault)
    IN  IF query.err # NoError THEN Raised(query.err, comps, c)
        ELSE [err |-> ex.err, components |-> comps, conn |-> ex.conn, log |-> ex.log,
              value |-> IF ex.err # NoError THEN PyNone ELSE table]

\* MySQL.DROP_TABLE
DROP_TABLE(comps, c, TABLE, fault) ==
    LET ex == EXECUTE(c, Str(dropTable(TABLE)), fault)
    IN  [err |-> ex.err, components |-> comps, conn |-> ex.conn, log |-> ex.log,
         value |-> IF ex.err # NoError THEN PyNone ELSE [type |-> "bool", b |-> TRUE]]

\* --------------------------------------------------------------- inputs

A == <<"A">>
B == <<"B">>
T == <<"T">>
Cond == <<"A", " > ", "1">>

ColB == ColumnType(B, <<"INT">>, FALSE, PyNone, PyNone, PyNone)
ColBad == ColumnType(A, <<"foo">>, FALSE, PyNone, PyNone, PyNone)
ColCons == ColumnType(A, <<"varchar", "(8)">>, TRUE, Str(<<"NOT NULL">>), PyNone,
                      Str(<<"x">>))
ColBadCons == ColumnType(A, <<"INT">>, FALSE, Str(<<"UNIQUE">>), PyNone, PyNone)
Fk == ConstraintType(A, T, B, PyNone, Str(<<"cascade">>), PyNone, PyNone)
FkBad == ConstraintType(A, T, B, Str(<<"K">>), PyNone, Str(<<"DROP">>), PyNone)

Literals == {Str(<<"x">>), Num(<<"1">>)}

RECURSIVE SeqsUpTo(_, _)
\* the sequences over S of length at most n
SeqsUpTo(S, n) ==
    IF n = 0 THEN {<<>>}
    ELSE LET shorter == SeqsUpTo(S, n - 1)
         IN  shorter \cup {Append(q, x) : q \in shorter, x \in S}

SelectHandle == MySqlMethod(<<"SELECT ", "A", "\n", "FROM ", "T", ";">>, "select", Rows)
InsertHandle == MySqlMethod(<<"INSERT INTO ", "T", "(", ")", ";">>, "insert", PyNone)

SelectColumns ==
    {PyList(<<Str(A), Str(B)>>), PyList(<<Str(A), ColB>>), PyList(<<>>), Str(<<"*">>)}
InsertColumns == {<<>>, <<Str(A)>>, <<Str(A), ColB>>}
ValuesArgs ==
    {PyList(q) : q \in SeqsUpTo(Literals, MaxValues)} \cup {SelectHandle, InsertHandle}
FromArgs == {Str(T), Fragment("SelectQuery", <<"SELECT ", "A">>)}
WhereArgs == {Str(Cond), OperatorMethod(Cond, "GREATER"), PyList(<<Str(Cond)>>)}
Entities == {Str(T), Fragment("SelectQuery", <<"SELECT ", "A">>)}
Faults == {"none", "execute", "fetchall"}

PyTuple(xs) == [type |-> "tuple", items |-> xs]
JoinArgs == {PyNone, PyTuple(<<Str(<<"INNER">>), Str(T), Str(<<"S">>)>>),
             PyTuple(<<Str(<<"INNER">>), Str(T), Str(<<"S">>), Str(A), Str(B)>>)}
FacadeColumns == {PyList(<<Str(A)>>), Str(<<"*">>)}
FacadeWhere == {PyNone, Str(Cond), PyList(<<Str(Cond)>>)}
FacadeGroupBy == {PyNone, Str(A), Str(<<"A", "B">>), ColB}
FacadeOrderBy == {PyNone, Str(B), AggregateFunctionType(<<"MAX">>, Str(A))}
FacadeValues == {PyList(<<>>), PyList(<<Num(<<"1">>)>>),
                 PyList(<<Str(<<"x">>), Num(<<"1">>)>>), SelectHandle}
TableColumns == {PyList(<<>>), PyList(<<ColB>>), PyList(<<ColBad>>),
                 PyList(<<ColB, ColBadCons>>), PyList(<<ColCons, ColB>>)}
TableConstraints == {PyNone, PyList(<<Fk>>), PyList(<<FkBad>>)}

\* ------------------------------------------------------------------ state

Init ==
    /\ components = <<>>
    /\ aliases = <<>>
    /\ conn = "open"
    /\ credentials = Connector__init__(DefaultCredentials)
    /\ log = <<>>
    /\ call = [op |-> "__init__", afterBuild |-> FALSE, connBefore |-> "closed",
               args |-> PyNone]
    /\ ret = [err |-> NoError, value |-> PyNone]
    /\ pre = <<>>

\* a clause method of the builder returns r
Clause(name, args, r) ==
    /\ Len(r.components) <= MaxComponents
    /\ pre' = components
    /\ call' = [op |-> name, afterBuild |-> call.op = "build", connBefore |-> conn,
                args |-> args]
    /\ components' = r.components
    /\ ret' = [err |-> r.err, value |-> IF r.err = NoError THEN r.frag ELSE PyNone]
    /\ UNCHANGED <<aliases, conn, credentials, log>>

CallSelect ==
    \E columns \in SelectColumns, record \in BOOLEAN :
        \E r \in {Select(components, columns, record)} :
            Clause("Select", [columns |-> columns, record |-> record], r)

CallInsert ==
    \E table \in {Str(T)}, columns \in InsertColumns, record \in BOOLEAN :
        \E r \in {Insert(components, table, columns, record)} :
            Clause("Insert", [table |-> table, columns |-> columns, record |-> record], r)

CallValues ==
    \E values \in ValuesArgs, record \in BOOLEAN :
        \E r \in {Values(components, values, record)} :
            Clause("Values", [values |-> values, record |-> record], r)

CallFrom ==
    \E table \in FromArgs, record \in BOOLEAN :
        \E r \in {From(components, table, record)} :
            Clause("From", [table |-> table, record |-> record], r)

CallWhere ==
    \E conditions \in WhereArgs, record \in BOOLEAN :
        \E r \in {Where(components, conditions, record)} :
            Clause("Where", [conditions |-> conditions, record |-> record], r)

\* Query.build
CallBuild ==
    /\ pre' = components
    /\ call' = [op |-> "build", afterBuild |-> call.op = "build", connBefore |-> conn,
                args |-> PyNone]
    /\ components' = build_components(components)
    /\ ret' = [err |-> NoError, value |-> Str(build_text(components))]
    /\ UNCHANGED <<aliases, conn, credentials, log>>

\* Operators.AS, called on the builder, ends with outcome r
Alias(entity, alias, _type, r) ==
    /\ pre' = components
    /\ call' = [op |-> "AS", afterBuild |-> call.op = "build", connBefore |-> conn,
                args |-> [entity |-> entity, alias |-> alias, _type |-> _type]]
    /\ aliases' = r.aliases
    /\ ret' = [err |-> r.err, value |-> r.frag]
    /\ UNCHANGED <<components, conn, credentials, log>>

\* Operators.AS, as the callers of the facade use it to prepare arguments
CallAS ==
    \E entity \in Entities, alias \in {B}, _type \in 1..3 :
        \E r \in {AS(aliases, entity, alias, _type)} : Alias(entity, alias, _type, r)

\* the entities AS is called on: raw names, a table and a column descriptor,
\* an aggregate and a nested subquery
AliasEntities ==
    {Str(T), Str(<<"S">>), Table(<<"S">>, PyList(<<ColB>>), FALSE, PyNone), ColB,
     AggregateFunctionType(<<"COUNT">>, Str(A)),
     Fragment("SelectQuery", <<"SELECT ", "A">>)}
Aliases == {<<"X">>, <<"Y">>}

\* Operators.AS with every kind of entity and every mode
CallASOnBuilder ==
    \E entity \in AliasEntities, alias \in Aliases, _type \in 1..3 :
        \E r \in {AS(aliases, entity, alias, _type)} : Alias(entity, alias, _type, r)

JoinTables == {Str(T), Table(<<"S">>, PyList(<<ColB>>), FALSE, PyNone), Str(<<"R">>)}

\* Operators.JOIN, called on the builder
CallJOIN ==
    \E _type \in {<<"INNER">>, <<"LEFT">>}, left_table \in JoinTables,
       right_table \in JoinTables, left_on \in {Str(A), ColB}, right_on \in {Str(B)} :
        \E r \in {JOIN(aliases, _type, left_table, right_table, left_on, right_on)} :
            /\ pre' = components
            /\ call' = [op |-> "JOIN", afterBuild |-> call.op = "build",
                        connBefore |-> conn,
                        args |-> [_type |-> _type, left_table |-> left_table,
                                  right_table |-> right_table, left_on |-> left_on,
                                  right_on |-> right_on]]
            /\ ret' = [err |-> NoError, value |-> r]
            /\ UNCHANGED <<components, aliases, conn, credentials, log>>

AliasNext ==
    \/ CallASOnBuilder
    \/ CallJOIN
    \/ CallFrom
    \/ CallBuild

\* the builder's alias operators, interleaved with clause calls and builds
AliasSpec == Init /\ [][AliasNext]_vars

Next ==
    \/ CallSelect
    \/ CallInsert
    \/ CallValues
    \/ CallFrom
    \/ CallWhere
    \/ CallBuild

\* the statement builder used on its own
Spec == Init /\ [][Next]_vars

\* inputs: the driver fails only in calls that pass no optional argument
FaultOnPlain(fault, optional) == fault # "none" => optional = {PyNone}

\* inputs: a SELECT call passes at most one argument that makes a clause raise
OneBadArgument(COLUMNS, WHERE, pJOIN, GROUP_BY, HAVING, ORDER_BY) ==
    LET bad == (IF COLUMNS.type # "list" THEN 1 ELSE 0)
                 + (IF WHERE.type = "list" THEN 1 ELSE 0)
                 + (IF pJOIN.type = "tuple" /\ Len(pJOIN.items) # 5 THEN 1 ELSE 0)
                 + (IF GROUP_BY.type = "ColumnType" THEN 1 ELSE 0)
                 + (IF ORDER_BY.type = "AggregateFunctionType" THEN 1 ELSE 0)
        given == {x \in {WHERE, pJOIN, GROUP_BY, HAVING, ORDER_BY} : x # PyNone}
    IN  \/ bad = 0
        \/ bad = 1 /\ Cardinality(given) <= 1

\* a facade operation of MySQL ends with outcome r
Facade(name, args, r) ==
    /\ Len(components) <= MaxStale
    /\ pre' = components
    /\ call' = [op |-> name, afterBuild |-> call.op = "build", connBefore |-> conn,
                args |-> args]
    /\ components' = r.components
    /\ conn' = r.conn
    /\ log' = r.log
    /\ ret' = [err |-> r.err, value |-> r.value]
    /\ UNCHANGED <<aliases, credentials>>

\* inputs: the two-character column name is grouped on with no other clause
CallSELECT ==
    \E COLUMNS \in FacadeColumns, FROM \in {Str(<<"F">>)}, WHERE \in FacadeWhere,
       pJOIN \in JoinArgs, GROUP_BY \in FacadeGroupBy, HAVING \in {PyNone, Str(Cond)},
       ORDER_BY \in FacadeOrderBy, fault \in Faults :
        /\ FaultOnPlain(fault, {WHERE, pJOIN, GROUP_BY, HAVING, ORDER_BY})
        /\ OneBadArgument(COLUMNS, WHERE, pJOIN, GROUP_BY, HAVING, ORDER_BY)
        /\ GROUP_BY = Str(<<"A", "B">>) => {WHERE, pJOIN, HAVING, ORDER_BY} = {PyNone}
        /\ \E r \in {SELECT(components, aliases, conn, COLUMNS, FROM, WHERE, pJOIN,
                             GROUP_BY, HAVING, ORDER_BY, fault)} :
               Facade("SELECT",
               [COLUMNS |-> COLUMNS, FROM |-> FROM, WHERE |-> WHERE, JOIN |-> pJOIN,
                GROUP_BY |-> GROUP_BY, HAVING |-> HAVING, ORDER_BY |-> ORDER_BY,
                fault |-> fault], r)

CallINSERT ==
    \E INTO \in {Str(T)}, COLUMNS \in InsertColumns, VALUES \in FacadeValues,
       fault \in Faults :
        /\ fault # "none" => Len(COLUMNS) = 1 /\ VALUES = PyList(<<Num(<<"1">>)>>)
        /\ \E r \in {INSERT(components, conn, INTO, COLUMNS, VALUES, fault)} :
               Facade("INSERT",
               [INTO |-> INTO, COLUMNS |-> COLUMNS, VALUES |-> VALUES, fault |-> fault], r)

CallUPDATE ==
    \E TABLE \in {Str(T)}, SET \in {<< <<Str(A), Num(<<"1">>)>> >>},
       WHERE \in FacadeWhere, fault \in Faults :
        \E r \in {UPDATE(components, conn, TABLE, SET, WHERE, fault)} :
            Facade("UPDATE",
                   [TABLE |-> TABLE, SET |-> SET, WHERE |-> WHERE, fault |-> fault], r)

CallDELETE ==
    \E FROM \in {Str(T)}, WHERE \in FacadeWhere \ {PyNone}, fault \in Faults :
        \E r \in {DELETE(components, conn, FROM, WHERE, fault)} :
            Facade("DELETE", [FROM |-> FROM, WHERE |-> WHERE, fault |-> fault], r)

CallCREATE_TABLE ==
    \E TABLE \in {Str(T)}, COLUMNS \in TableColumns, CONSTRAINTS \in TableConstraints,
       IF_NOT_EXISTS \in BOOLEAN, fault \in Faults :
        /\ FaultOnPlain(fault, {CONSTRAINTS})
        /\ \E r \in {CREATE_TABLE(components, conn, TABLE, COLUMNS, CONSTRAINTS,
                                   IF_NOT_EXISTS, fault)} :
               Facade("CREATE_TABLE",
               [TABLE |-> TABLE, COLUMNS |-> COLUMNS, CONSTRAINTS |-> CONSTRAINTS,
                IF_NOT_EXISTS |-> IF_NOT_EXISTS, fault |-> fault], r)

CallDROP_TABLE ==
    \E TABLE \in {Str(T)}, fault \in Faults :
        \E r \in {DROP_TABLE(components, conn, TABLE, fault)} :
            Facade("DROP_TABLE", [TABLE |-> TABLE, fault |-> fault], r)

\* statements handed to EXECUTE directly: raw texts and typed statements
ExecuteArgs ==
    {Str(<<"select ", "1">>), Str(<<"SeLeCt ", "1">>), Str(<<" ", "SELECT ", "1">>),
     Str(<<"DROP TABLE ", "T", ";">>),
     Fragment("SelectQuery", <<"SELECT ", "A">>),
     Fragment("InsertQuery", <<"INSERT INTO ", "T", "(", "A", ")">>),
     Fragment("UpdateQuery", <<"UPDATE ", "T">>),
     Fragment("DeleteQuery", <<"DELETE ", "FROM ", "T">>)}

\* the outcome of a direct EXECUTE call: the buffer is not touched
Executes(comps, ex) ==
    [err |-> ex.err, components |-> comps, conn |-> ex.conn, log |-> ex.log,
     value |-> IF ex.err = NoError THEN ex.results ELSE PyNone]

CallEXECUTE ==
    \E query \in ExecuteArgs, fault \in Faults :
        \E r \in {Executes(components, EXECUTE(conn, query, fault))} :
            Facade("EXECUTE", [query |-> query, fault |-> fault], r)

FacadeNext ==
    \/ CallSELECT
    \/ CallEXECUTE
    \/ CallINSERT
    \/ CallUPDATE
    \/ CallDELETE
    \/ CallCREATE_TABLE
    \/ CallDROP_TABLE
    \/ CallAS

\* the facade, driven only through its public operations (and the alias
\* operator its callers use to prepare arguments)
FacadeSpec == Init /\ [][FacadeNext]_vars

\* column descriptors: every combination of the optional fields over datatypes
\* in and out of the whitelist and constraints in and out of theirs
Datatypes ==
    {<<"INT">>, <<"int">>, <<"varchar", "(8)">>, <<"DOUBLE", " PRECISION">>, <<"foo">>,
     <<"(8)">>}
ColumnConstraints ==
    {PyNone, Str(<<"NOT NULL">>), Str(<<"NULL">>), Str(<<"PRIMARY KEY">>),
     Str(<<"UNIQUE">>), Str(<<"not null">>)}
Columns ==
    {ColumnType(A, dt, ai, cons, chk, dflt) :
        dt \in Datatypes, ai \in BOOLEAN, cons \in ColumnConstraints,
        chk \in {PyNone, Str(Cond)}, dflt \in {PyNone, Str(<<"x">>), Num(<<"1">>)}}

\* table descriptors: 0 to 2 columns, constraints absent, empty or given
Tables ==
    {Table(T, PyList(cols), ine, cons) :
        cols \in {<<>>, <<ColB>>, <<ColCons, ColB>>, <<ColB, ColBad>>},
        ine \in BOOLEAN,
        cons \in {PyNone, PyList(<<>>), PyList(<<Fk>>), PyList(<<Fk, FkBad>>)}}

\* what a descriptor's get() hands back: the text, or nothing when it raised
Rendered(r) == [err |-> r.err, value |-> IF r.err = NoError THEN Str(r.text) ELSE PyNone]

\* ColumnType.get on a descriptor
CallColumnGet ==
    \E column \in Columns :
        /\ call' = [op |-> "ColumnType.get", afterBuild |-> FALSE, connBefore |-> conn,
                    args |-> column]
        /\ ret' = Rendered(ColumnGet(column))
        /\ UNCHANGED <<components, aliases, conn, credentials, log, pre>>

\* Table.get on a descriptor
CallTableGet ==
    \E table \in Tables :
        /\ call' = [op |-> "Table.get", afterBuild |-> FALSE, connBefore |-> conn,
                    args |-> table]
        /\ ret' = Rendered(TableGet(table))
        /\ UNCHANGED <<components, aliases, conn, credentials, log, pre>>

DescriptorNext ==
    \/ CallColumnGet
    \/ CallTableGet

\* the schema descriptors rendered on their own
DescriptorSpec == Init /\ [][DescriptorNext]_vars

\* credential mappings: every set of allowed and other keys, two host values
CredentialKeys == ALLOWED_KEYS \cup {"Host", "ssl_ca"}
Mappings ==
    UNION {[keys -> {"v"}] : keys \in SUBSET CredentialKeys}
        \cup {[m EXCEPT !["host"] = "w"] :
                 m \in UNION {[keys -> {"v"}] :
                                keys \in {k \in SUBSET CredentialKeys : "host" \in k}}}

\* Connector(credentials): a new connector, not yet connected
CallConnector ==
    \E supplied \in Mappings :
        /\ credentials' = Connector__init__(supplied)
        /\ call' = [op |-> "Connector.__init__", afterBuild |-> FALSE,
                    connBefore |-> conn, args |-> supplied]
        /\ ret' = [err |-> NoError, value |-> PyNone]
        /\ conn' = "closed"
        /\ components' = <<>>
        /\ aliases' = <<>>
        /\ log' = <<>>
        /\ pre' = components

ConnectorNext == CallConnector

\* connectors constructed from credential mappings
ConnectorSpec == Init /\ [][ConnectorNext]_vars

\* the default of fmt and a caller's pattern
DefaultFmt == <<"%Y", "-", "%m", "-", "%d", " ", "%H", ":", "%M", ":", "%S">>
Formats == {DefaultFmt, <<"%d", "/", "%m", "/", "%Y">>}
Datetimes == {datetime(2024, 1, 2, 3, 4, 5), datetime(2023, 12, 31, 23, 59, 58),
              datetime(2024, 1, 2, 3, 40, 5)}
BoundValues == Datetimes \cup {Num(<<"1">>), Str(<<"x">>)}
BetweenColumns == {Str(A), ColB, AggregateFunctionType(<<"MAX">>, Str(A)), Num(<<"1">>)}

\* Operators.BETWEEN_AND(column, left_value, right_value, fmt=fmt)
CallBETWEEN_AND ==
    \E column \in BetweenColumns, left_value \in BoundValues, right_value \in BoundValues,
       fmt \in Formats :
        /\ call' = [op |-> "BETWEEN_AND", afterBuild |-> FALSE, connBefore |-> conn,
                    args |-> [column |-> column, left_value |-> left_value,
                              right_value |-> right_value, fmt |-> fmt]]
        /\ ret' = BETWEEN_AND(column, left_value, right_value, fmt)
        /\ pre' = components
        /\ UNCHANGED <<components, aliases, conn, credentials, log>>

OperatorNext == CallBETWEEN_AND

\* range conditions built on their own
OperatorSpec == Init /\ [][OperatorNext]_vars

\* ---------------------------------------------------------------- claims

\* C1: build() leaves the clause buffer empty whatever it held before, and a
\* build() right after a build() returns only the terminator ";" and again
\* leaves the buffer empty.
C1_BuildResets ==
    call.op = "build" =>
        /\ components = <<>>
        /\ call.afterBuild => ret.value = Str(<<";">>)

\* C1 witness: a build right after a build
C1_Witness ==
    /\ call.op = "build"
    /\ call.afterBuild
    /\ ret.value = Str(<<";">>)
    /\ components = <<>>

RECURSIVE Offset(_, _)
\* the position before fragment i in the text build returns for buffer comps:
\* every earlier fragment's tokens and one separator each
Offset(comps, i) ==
    IF i = 1 THEN 0 ELSE Offset(comps, i - 1) + Len(comps[i - 1].query) + 1

\* C2: build() returns the buffered fragments' texts in the order they were
\* appended, each followed by one newline, the last by one ";" instead, and
\* nothing else: no fragment dropped, duplicated or reordered.
C2_BuildJoins ==
    call.op = "build" =>
        LET text == ret.value.s
            n == Len(pre)
        IN  /\ n = 0 => text = <<";">>
            /\ n > 0 => Len(text) = Offset(pre, n) + Len(pre[n].query) + 1
            /\ \A i \in 1..n :
                  /\ SubSeq(text, Offset(pre, i) + 1, Offset(pre, i) + Len(pre[i].query))
                        = pre[i].query
                  /\ text[Offset(pre, i) + Len(pre[i].query) + 1]
                        = IF i < n THEN "\n" ELSE ";"

\* C2 witness: a build of three distinct fragments
C2_Witness ==
    /\ call.op = "build"
    /\ Len(pre) = 3
    /\ pre[1] # pre[2] /\ pre[2] # pre[3] /\ pre[1] # pre[3]
    /\ ret.err = NoError

\* the fragment an Insert call with these columns appends
InsertFragment(columns) == Insert(<<>>, Str(T), columns, TRUE).frag

\* 'VALUES (v1, ..., vN)': a string value wrapped in single quotes, any other bare
ValuesText(vs) ==
    <<"VALUES (">>
        \o Join([i \in 1..Len(vs) |->
                   IF vs[i].type = "str" THEN <<"'">> \o vs[i].s \o <<"'">> ELSE vs[i].s],
                <<", ">>)
        \o <<")">>

\* C4: after an Insert naming N columns (N = 0 and N = 1 included), Values with
\* a list of another length fails with the validation error, and with a list of
\* length N succeeds and renders 'VALUES (v1, ..., vN)', strings quoted and
\* numbers bare.
C4_ValuesMatchColumns ==
    (call.op = "Values" /\ call.args.values.type = "list" /\ pre # <<>>) =>
        \A columns \in InsertColumns :
            pre[Len(pre)] = InsertFragment(columns) =>
                LET N == Len(columns)
                    vs == call.args.values.items
                IN  /\ Len(vs) # N => ret.err = "AssertionError"
                    /\ Len(vs) = N =>
                          /\ ret.err = NoError
                          /\ ret.value = Fragment("ValueQuery", ValuesText(vs))

\* C5: Values called when the last fragment of the buffer is no Insert fragment
\* (an empty buffer included) fails with the contract error and appends nothing.
C5_ValuesNeedsInsert ==
    (call.op = "Values" /\ (pre = <<>> \/ pre[Len(pre)].type # "InsertQuery")) =>
        /\ ret.err = "AssertionError"
        /\ components = pre

\* C6: Values called right after an Insert with a select-tagged result handle
\* raises nothing and appends the handle's fetched rows.
C6_ValuesAcceptsSelectHandle ==
    (/\ call.op = "Values"
     /\ pre # <<>>
     /\ pre[Len(pre)].type = "InsertQuery"
     /\ call.args.values = SelectHandle) =>
        /\ ret.err = NoError
        /\ ret.value = SelectHandle.data
        /\ components = IF call.args.record THEN Append(pre, SelectHandle.data) ELSE pre

FacadeOps == {"SELECT", "INSERT", "UPDATE", "DELETE", "CREATE_TABLE", "DROP_TABLE"}
ValidationErrors == {"AssertionError", "ValueError"}

\* the driver calls of the last operation, by name
DriverCalls == [i \in 1..Len(log) |-> log[i].call]

\* the statements the last operation handed to cursor.execute
Executed ==
    LET sent(e) == e.call = "execute"
        es == SelectSeq(log, sent)
    IN  [i \in 1..Len(es) |-> es[i].arg]

\* the outcome of the last operation had it started on an empty buffer
OnFreshBuffer ==
    LET a == call.args
    IN  CASE call.op = "SELECT" ->
               SELECT(<<>>, aliases, call.connBefore, a.COLUMNS, a.FROM, a.WHERE, a.JOIN,
                      a.GROUP_BY, a.HAVING, a.ORDER_BY, a.fault)
          [] call.op = "INSERT" ->
               INSERT(<<>>, call.connBefore, a.INTO, a.COLUMNS, a.VALUES, a.fault)
          [] call.op = "UPDATE" ->
               UPDATE(<<>>, call.connBefore, a.TABLE, a.SET, a.WHERE, a.fault)
          [] call.op = "DELETE" ->
               DELETE(<<>>, call.connBefore, a.FROM, a.WHERE, a.fault)

\* C3: the clause buffer is empty whenever SELECT, INSERT, UPDATE or DELETE
\* starts, also after operations that failed part-way, and the statement the
\* operation sends is the one its own arguments produce.
C3_StatelessAcrossCalls ==
    call.op \in {"SELECT", "INSERT", "UPDATE", "DELETE"} =>
        /\ pre = <<>>
        /\ log = OnFreshBuffer.log

\* C7: a facade operation that raises a validation error has made no execute
\* call on the driver.
C7_ValidationBeforeDriver ==
    (call.op \in FacadeOps /\ ret.err \in ValidationErrors) =>
        \A i \in 1..Len(log) : log[i].call # "execute"

\* C7 witness: an INSERT whose value count does not match its columns
C7_Witness ==
    /\ call.op = "INSERT"
    /\ call.args.VALUES.type = "list"
    /\ Len(call.args.VALUES.items) > Len(call.args.COLUMNS)
    /\ ret.err = "AssertionError"
    /\ log = <<>>

\* C8: a facade operation that returns has opened the connection once, then
\* executed one statement, then fetched exactly when the statement text is a
\* SELECT, then closed; the connection is closed when it returns, whatever
\* state an earlier operation left it in.
C8_OpenExecuteFetchClose ==
    (call.op \in FacadeOps /\ ret.err = NoError) =>
        LET main(n) == n \in {"_open_connection", "execute", "fetchall", "close"}
            calls == SelectSeq(DriverCalls, main)
        IN  /\ Len(Executed) = 1
            /\ calls = IF Executed[1] # <<>> /\ Executed[1][1] = "SELECT "
                       THEN <<"_open_connection", "execute", "fetchall", "close">>
                       ELSE <<"_open_connection", "execute", "close">>
            /\ conn = "closed"

\* C8 witness: a SELECT that returns after an operation that left the
\* connection open
C8_Witness ==
    /\ call.op = "SELECT"
    /\ call.connBefore = "open"
    /\ pre = <<>>
    /\ ret.err = NoError
    /\ conn = "closed"
    /\ Len(log) = 6

ClauseKeywords ==
    {"SELECT ", "FROM ", "WHERE ", "GROUP BY ", "HAVING ", "ORDER BY ", "INSERT INTO ",
     "VALUES (", "UPDATE ", "SET ", "DELETE "}

\* the clause keywords of a statement text, in order
KeywordsOf(stmt) ==
    LET kw(t) == t \in ClauseKeywords
    IN  SelectSeq(stmt, kw)

\* C9: the statement a successful SELECT sends is the clauses SELECT, FROM,
\* WHERE, GROUP BY, HAVING, ORDER BY in that order, newline-separated, SELECT
\* and FROM always, each other one exactly when its argument was given, none
\* twice, ending with ";".
C9_SelectClauseOrder ==
    (call.op = "SELECT" /\ ret.err = NoError) =>
        LET stmt == ret.value.query
            a == call.args
            nl(t) == t = "\n"
            expected == <<"SELECT ", "FROM ">>
                \o (IF a.WHERE # PyNone THEN <<"WHERE ">> ELSE <<>>)
                \o (IF a.GROUP_BY # PyNone THEN <<"GROUP BY ">> ELSE <<>>)
                \o (IF a.HAVING # PyNone THEN <<"HAVING ">> ELSE <<>>)
                \o (IF a.ORDER_BY # PyNone THEN <<"ORDER BY ">> ELSE <<>>)
        IN  /\ KeywordsOf(stmt) = expected
            /\ stmt[1] = "SELECT "
            /\ \A i \in 2..Len(stmt) : stmt[i] \in ClauseKeywords => stmt[i - 1] = "\n"
            /\ Len(SelectSeq(stmt, nl)) = Len(expected) - 1
            /\ stmt[Len(stmt)] = ";"
            /\ Executed = <<stmt>>

RECURSIVE UpTo(_, _)
\* the tokens of text before the first token in stops
UpTo(text, stops) ==
    IF text = <<>> \/ Head(text) \in stops THEN <<>>
    ELSE <<Head(text)>> \o UpTo(Tail(text), stops)

\* the clause of a statement that starts at keyword kw, up to its line's end
ClauseOf(stmt, kw) ==
    IF \E i \in 1..Len(stmt) : stmt[i] = kw
    THEN LET i == CHOOSE i \in 1..Len(stmt) : stmt[i] = kw /\ \A j \in 1..(i - 1) : stmt[j] # kw
         IN  UpTo(SubSeq(stmt, i, Len(stmt)), {"\n", ";"})
    ELSE <<>>

\* C10: a successful SELECT with a five-part JOIN argument sends a FROM clause
\* that is 'FROM ' followed by the rendered join text, and does not use the
\* FROM argument.
C10_JoinReplacesFrom ==
    (/\ call.op = "SELECT"
     /\ ret.err = NoError
     /\ call.args.JOIN # PyNone
     /\ Len(call.args.JOIN.items) = 5) =>
        LET j == call.args.JOIN.items
            stmt == ret.value.query
        IN  /\ ClauseOf(stmt, "FROM ")
                  = <<"FROM ">> \o JOIN(aliases, j[1].s, j[2], j[3], j[4], j[5]).query
            /\ \A i \in 1..Len(stmt) : <<stmt[i]>> # call.args.FROM.s

\* the raw names of a list of str columns
RawNames(columns) == [i \in 1..Len(columns.items) |-> columns.items[i].s]

\* a non-empty list whose items are all raw column names
IsRawList(columns) ==
    /\ columns.type = "list"
    /\ columns.items # <<>>
    /\ \A i \in 1..Len(columns.items) : columns.items[i].type = "str"

\* C11: on an empty buffer, Select with a list of raw names, From with a table
\* name, Where with a text condition and build() produce exactly 'SELECT ' +
\* the names joined by ', ' + newline + 'FROM ' + table + newline + 'WHERE ' +
\* condition + ';': each recorded call appends exactly its clause text, and
\* build joins the three clauses.
C11_SelectRoundTrip ==
    /\ (call.op = "Select" /\ call.args.record /\ pre = <<>>
            /\ IsRawList(call.args.columns)) =>
           components = <<Fragment("SelectQuery",
                                   <<"SELECT ">>
                                       \o Join(RawNames(call.args.columns), <<", ">>))>>
    /\ (call.op = "From" /\ call.args.record /\ call.args.table.type = "str") =>
           components = Append(pre, Fragment("FromQuery",
                                             <<"FROM ">> \o call.args.table.s))
    /\ (call.op = "Where" /\ call.args.record /\ call.args.conditions.type = "str") =>
           components = Append(pre, Fragment("WhereQuery",
                                             <<"WHERE ">> \o call.args.conditions.s))
    /\ (call.op = "build" /\ Len(pre) = 3 /\ pre[1].type = "SelectQuery"
            /\ pre[2].type = "FromQuery" /\ pre[3].type = "WhereQuery") =>
           ret.value = Str(pre[1].query \o <<"\n">> \o pre[2].query \o <<"\n">>
                               \o pre[3].query \o <<";">>)

\* C11 witness: the statement built from columns [A, B], table T, condition A > 1
C11_Witness ==
    /\ call.op = "build"
    /\ Len(pre) = 3
    /\ ret.value = Str(<<"SELECT ", "A", ", ", "B", "\n", "FROM ", "T", "\n",
                          "WHERE ", "A", " > ", "1", ";">>)

\* the raw statement texts that start with SELECT in some letter case
StartsWithSelect(text) == text # <<>> /\ text[1] \in {"SELECT ", "select ", "SeLeCt "}

\* C12: EXECUTE accepts a raw statement string and a typed statement; when the
\* driver raises nothing it fetches and returns rows exactly when the statement
\* is a SelectQuery or its text starts with SELECT in any letter case, and for
\* every other accepted statement it returns an empty result without raising
\* and closes the connection.
C12_ExecuteFetchesSelects ==
    (call.op = "EXECUTE" /\ call.args.fault = "none") =>
        LET query == call.args.query
            select == \/ query.type = "SelectQuery"
                      \/ query.type = "str" /\ StartsWithSelect(query.s)
            fetched == \E i \in 1..Len(log) : log[i].call = "fetchall"
        IN  /\ ret.err = NoError
            /\ conn = "closed"
            /\ select => fetched /\ ret.value = Rows
            /\ ~select => ~fetched /\ ret.value = NoRows

\* datatypes whose first word is, case-insensitively, a whitelisted keyword
KeywordRecognised(datatype) ==
    datatype[1] \in {"INT", "int", "VARCHAR", "varchar", "DOUBLE"}

\* text begins with prefix
BeginsWith(text, prefix) ==
    Len(text) >= Len(prefix) /\ SubSeq(text, 1, Len(prefix)) = prefix

\* C13 as stated: a column descriptor whose datatype keyword is whitelisted
\* renders, and the text begins with '<name> <datatype>'; one whose keyword is
\* not whitelisted fails with a validation error and yields no text.
C13_DatatypeDecidesRendering ==
    call.op = "ColumnType.get" =>
        LET c == call.args
        IN  /\ KeywordRecognised(c.datatype) =>
                  /\ ret.err = NoError
                  /\ BeginsWith(ret.value.s, c.name \o <<" ">> \o c.datatype)
            /\ ~KeywordRecognised(c.datatype) =>
                  /\ ret.err = "AssertionError"
                  /\ ret.value = PyNone

\* C13, amended: a column descriptor whose datatype keyword is whitelisted and
\* whose constraint is absent or recognised renders, and the text begins with
\* '<name> <datatype>'; one whose keyword is not whitelisted fails with a
\* validation error and yields no text.
C13_DatatypeDecidesRenderingAmended ==
    call.op = "ColumnType.get" =>
        LET c == call.args
            constraintOk == c.constraint \in {PyNone, Str(<<"NOT NULL">>), Str(<<"NULL">>),
                                               Str(<<"PRIMARY KEY">>)}
        IN  /\ (KeywordRecognised(c.datatype) /\ constraintOk) =>
                  /\ ret.err = NoError
                  /\ BeginsWith(ret.value.s, c.name \o <<" ">> \o c.datatype)
            /\ ~KeywordRecognised(c.datatype) =>
                  /\ ret.err = "AssertionError"
                  /\ ret.value = PyNone

\* C13 witness: a lower-case parameterised datatype renders with every
\* optional part
C13_Witness ==
    /\ call.op = "ColumnType.get"
    /\ call.args.datatype = <<"varchar", "(8)">>
    /\ call.args.constraint = Str(<<"PRIMARY KEY">>)
    /\ call.args.autoincrement
    /\ ret.err = NoError
    /\ BeginsWith(ret.value.s, <<"A", " ", "varchar", "(8)">>)

\* C14: column rendering fails with a validation error when a present
\* constraint is not one of NOT NULL, NULL, PRIMARY KEY; on success the text is
\* NAME TYPE, then AUTO_INCREMENT, then the constraint, then CHECK(expr), then
\* DEFAULT literal, each part present exactly when its field is set.
C14_ColumnPartsInOrder ==
    call.op = "ColumnType.get" =>
        LET c == call.args
            auto == IF c.autoincrement THEN <<" AUTO_INCREMENT">> ELSE <<>>
            constraint == IF c.constraint = PyNone THEN <<>> ELSE <<" ">> \o c.constraint.s
            check == IF c.check = PyNone THEN <<>>
                     ELSE <<" CHECK(">> \o c.check.s \o <<")">>
            literal == IF c.default.type = "str" THEN <<"'">> \o c.default.s \o <<"'">>
                       ELSE c.default.s
            default == IF c.default = PyNone THEN <<>> ELSE <<" DEFAULT ">> \o literal
        IN  /\ (c.constraint # PyNone
                    /\ c.constraint.s \notin {<<"NOT NULL">>, <<"NULL">>, <<"PRIMARY KEY">>}) =>
                  ret.err = "AssertionError"
            /\ ret.err = NoError =>
                  ret.value.s = c.name \o <<" ">> \o c.datatype \o auto \o constraint
                                    \o check \o default

\* C14 witness: a column rendered with all four optional parts
C14_Witness ==
    /\ call.op = "ColumnType.get"
    /\ ret.value = Str(<<"A", " ", "INT", " AUTO_INCREMENT", " ", "NOT NULL", " CHECK(",
                          "A", " > ", "1", ")", " DEFAULT ", "'", "x", "'">>)

\* C15: a Table with n >= 1 valid columns and no constraints, or an empty
\* constraint sequence, renders 'CREATE TABLE ' + ('IF NOT EXISTS ' when
\* if_not_exists) + name + '(' + newline + the column fragments joined by ','
\* + newline, then newline + ');', with no ',' after the last column.
C15_TableWithoutConstraints ==
    (/\ call.op = "Table.get"
     /\ call.args.columns.items # <<>>
     /\ \A i \in 1..Len(call.args.columns.items) :
            ColumnGet(call.args.columns.items[i]).err = NoError
     /\ call.args.constraints \in {PyNone, PyList(<<>>)}) =>
        LET t == call.args
            fragments == [i \in 1..Len(t.columns.items) |->
                            ColumnGet(t.columns.items[i]).text]
        IN  /\ ret.err = NoError
            /\ ret.value.s = <<"CREATE TABLE ">>
                    \o (IF t.if_not_exists THEN <<"IF NOT EXISTS ">> ELSE <<>>)
                    \o t.name \o <<"(\n">>
                    \o Join(fragments, <<",\n">>)
                    \o <<"\n", ");">>

\* C16: rendering a table whose column sequence is empty fails, so that
\* CREATE_TABLE with an empty column list raises and sends no statement to the
\* driver.
C16_EmptyColumnListRejected ==
    (call.op = "CREATE_TABLE" /\ call.args.COLUMNS = PyList(<<>>)) =>
        /\ ret.err # NoError
        /\ \A i \in 1..Len(log) : log[i].call # "execute"

\* the name a table or column argument goes by
ArgName(x) == IF x.type = "str" THEN x.s ELSE x.name

\* 'alias.' when the alias map holds an alias for the table, else nothing
Qualifier(table) ==
    IF ArgName(table) \in DOMAIN aliases THEN aliases[ArgName(table)] \o <<".">> ELSE <<>>

\* C17: AS in mode 1 on a raw name X with alias Y renders 'X AS Y' and records
\* X -> Y in the alias map; a JOIN renders 'L TYPE JOIN R ON l = r' where the
\* left (right) column is prefixed by 'Y.' when the alias map holds Y for the
\* left (right) table, and is left unqualified when it holds none.
C17_AliasQualifiesJoin ==
    /\ (call.op = "AS" /\ call.args._type = 1 /\ call.args.entity.type = "str") =>
           /\ ret.err = NoError
           /\ ret.value.query = call.args.entity.s \o <<" AS ">> \o call.args.alias
           /\ call.args.entity.s \in DOMAIN aliases
           /\ aliases[call.args.entity.s] = call.args.alias
    /\ call.op = "JOIN" =>
           LET a == call.args
           IN  ret.value.query =
                   ArgName(a.left_table) \o <<" ">> \o a._type \o <<" JOIN ">>
                       \o ArgName(a.right_table) \o <<" ", "ON ">>
                       \o Qualifier(a.left_table) \o ArgName(a.left_on) \o <<" = ">>
                       \o Qualifier(a.right_table) \o ArgName(a.right_on)

\* C17 witness: a JOIN of T, aliased Y by AS, with a table that has no alias
C17_Witness ==
    /\ call.op = "JOIN"
    /\ aliases = (<<"T">> :> <<"Y">>)
    /\ ret.value.query = <<"T", " ", "INNER", " JOIN ", "R", " ", "ON ", "Y", ".", "A",
                            " = ", "B">>

\* the text a named entity is rendered by
EntityText(e) ==
    IF e.type = "str" THEN e.s
    ELSE IF e.type = "AggregateFunctionType" THEN e.fn \o <<"(">> \o e.column.s \o <<")">>
    ELSE e.name

\* what an AS call returned, by mode and kind of entity
AsRendered ==
    call.op = "AS" =>
        LET e == call.args.entity
            a == call.args.alias
            mode == call.args._type
        IN  IF e.type # "SelectQuery"
            THEN /\ ret.err = NoError
                 /\ ret.value.query =
                        CASE mode = 1 -> EntityText(e) \o <<" AS ">> \o a
                          [] mode = 2 -> EntityText(e) \o <<" ">> \o a
                          [] mode = 3 -> a \o <<".">> \o EntityText(e)
            ELSE CASE mode = 1 ->
                        /\ ret.err = NoError
                        /\ ret.value.query = <<"(">> \o e.query \o <<")", " AS ">> \o a
                   [] mode = 2 ->
                        /\ ret.err = NoError
                        /\ ret.value.query = <<"(">> \o e.query \o <<")", " ">> \o a
                   [] mode = 3 ->
                        /\ ret.err = "AssertionError"
                        /\ ret.value = PyNone

\* C18: AS has three modes: for a named entity E and alias a, mode 1 renders
\* 'E AS a', mode 2 'E a', mode 3 'a.E'; for a nested subquery modes 1 and 2
\* render the parenthesised subquery followed by the suffix, and mode 3 fails
\* with a validation error and leaves the alias map unchanged.
C18_AliasModes ==
    /\ []AsRendered
    /\ [][(call'.op = "AS" /\ ret'.err # NoError) => aliases' = aliases]_vars

\* C18 witness: prefix mode refused on a nested subquery while aliases exist
C18_Witness ==
    /\ call.op = "AS"
    /\ call.args.entity.type = "SelectQuery"
    /\ call.args._type = 3
    /\ ret.err = "AssertionError"
    /\ aliases # <<>>

\* C19: the alias map is never cleared: no clause call, build() or JOIN
\* changes it; an AS that records an alias for E sets E's entry to the new
\* alias, overwriting an earlier one, and keeps every other entry; a JOIN
\* qualifies with the entry the map holds, also after a build().
C19_AliasesPersist ==
    /\ [][call'.op # "AS" => aliases' = aliases]_vars
    /\ [][(call'.op = "AS" /\ ret'.err = NoError
              /\ call'.args.entity.type \in {"str", "Table", "ColumnType"}) =>
             LET E == ArgName(call'.args.entity)
             IN  /\ DOMAIN aliases' = DOMAIN aliases \cup {E}
                 /\ aliases'[E] = call'.args.alias
                 /\ \A k \in DOMAIN aliases \ {E} : aliases'[k] = aliases[k]]_vars
    /\ [](call.op = "JOIN" =>
             LET n == Len(ret.value.query)
                 a == call.args
                 tail == Qualifier(a.right_table) \o ArgName(a.right_on)
             IN  SubSeq(ret.value.query, n - Len(tail) + 1, n) = tail)

\* C19 witness: right after a build(), a JOIN still qualifies both columns
\* with aliases recorded for an earlier statement
C19_Witness ==
    /\ call.op = "JOIN"
    /\ call.afterBuild
    /\ pre = <<>>
    /\ aliases = (<<"T">> :> <<"Y">> @@ <<"S">> :> <<"X">>)
    /\ ret.value.query = <<"T", " ", "LEFT", " JOIN ", "S", " ", "ON ", "Y", ".", "A",
                            " = ", "X", ".", "B">>

\* C20: credential configuration is all-or-nothing: when every key of the
\* supplied mapping is one of host, user, password, database, port the stored
\* credentials equal the mapping; when any other key is present the stored
\* credentials are empty; no error is raised either way.
C20_CredentialsAllOrNothing ==
    call.op = "Connector.__init__" =>
        LET supplied == call.args
            allowed == {"host", "user", "password", "database", "port"}
        IN  /\ ret.err = NoError
            /\ DOMAIN supplied \subseteq allowed =>
                  /\ DOMAIN credentials = DOMAIN supplied
                  /\ \A key \in DOMAIN supplied : credentials[key] = supplied[key]
            /\ ~(DOMAIN supplied \subseteq allowed) => DOMAIN credentials = {}

\* C20 witness: a mapping with valid entries and one other key is dropped whole
C20_Witness ==
    /\ call.op = "Connector.__init__"
    /\ DOMAIN call.args = {"host", "user", "ssl_ca"}
    /\ DOMAIN credentials = {}

\* the outcomes of every clause method that has a record flag, called on
\* buffer comps with record given
Recorded(comps, record) ==
    {Select(comps, columns, record) : columns \in SelectColumns}
    \cup {From(comps, table, record) : table \in FromArgs}
    \cup {Where(comps, conditions, record) : conditions \in WhereArgs}
    \cup {Insert(comps, Str(T), columns, record) : columns \in InsertColumns}
    \cup {Update(comps, table, record) : table \in {Str(T)}}
    \cup {Delete(comps, _from, where, record) :
              _from \in {Str(T), Fragment("FromQuery", <<"FROM ", "T">>)},
              where \in {Str(Cond), Fragment("WhereQuery", <<"WHERE ">> \o Cond)}}
    \cup {Set(comps, update, record) : update \in {<< <<Str(A), Num(<<"1">>)>> >>}}
    \cup {groupBy(comps, columns, record) : columns \in {PyList(<<Str(A), ColB>>), ColB}}
    \cup {Having(comps, conditions, record) :
              conditions \in {Str(Cond), PyList(<<Str(Cond)>>)}}
    \cup {orderBy(comps, columns, ascending, record) :
              columns \in {PyList(<<Str(A), ColB>>), ColB}, ascending \in BOOLEAN}
    \cup {Constraints(comps, Table(T, PyList(<<ColB>>), FALSE, constraints_), record) :
              constraints_ \in TableConstraints}

\* on the current buffer, a successful call with record=False leaves the buffer
\* alone and a successful call with record=True appends its own fragment and
\* nothing else, and the two calls return the same fragment
RecordFlagDecidesAppend ==
    /\ \A r \in Recorded(components, FALSE) :
           r.err = NoError =>
               /\ r.components = components
               /\ \E s \in Recorded(components, TRUE) : s.err = NoError /\ s.frag = r.frag
    /\ \A s \in Recorded(components, TRUE) :
           s.err = NoError =>
               /\ s.components = Append(components, s.frag)
               /\ \E r \in Recorded(components, FALSE) : r.err = NoError /\ r.frag = s.frag

\* the buffer the facade DELETE hands to build(): the one it started on after
\* its unrecorded From and Where and its recorded Delete
DeleteBuffer ==
    LET f == From(pre, call.args.FROM, FALSE)
        w == Where(f.components, call.args.WHERE, FALSE)
    IN  Delete(w.components, f.frag, w.frag, TRUE).components

\* C21: every clause method with a record flag leaves the buffer unchanged
\* when it succeeds with record=False and returns the same fragment as with
\* record=True, which appends exactly that one fragment at the end of the
\* buffer; and when the facade DELETE reaches build() the buffer holds exactly
\* one fragment, the DELETE.
C21_RecordFlag ==
    /\ RecordFlagDecidesAppend
    /\ (call.op = "DELETE" /\ ret.err \notin {"UnboundLocalError"}) =>
           /\ Len(DeleteBuffer) = 1
           /\ DeleteBuffer[1].type = "DeleteQuery"
           /\ Executed = <<build_text(DeleteBuffer)>>

\* the part of C21 that does not depend on what an earlier operation left
C21_OnEmptyBuffer ==
    /\ RecordFlagDecidesAppend
    /\ (call.op = "DELETE" /\ ret.err \notin {"UnboundLocalError"} /\ pre = <<>>) =>
           /\ Len(DeleteBuffer) = 1
           /\ DeleteBuffer[1].type = "DeleteQuery"
           /\ Executed = <<build_text(DeleteBuffer)>>

\* the decimal text of n in exactly width digits
Padded(n, width) ==
    LET digit(k) == CASE k = 0 -> "0" [] k = 1 -> "1" [] k = 2 -> "2" [] k = 3 -> "3"
                      [] k = 4 -> "4" [] k = 5 -> "5" [] k = 6 -> "6" [] k = 7 -> "7"
                      [] k = 8 -> "8" [] k = 9 -> "9"
        pow(e) == IF e = 0 THEN 1 ELSE IF e = 1 THEN 10 ELSE IF e = 2 THEN 100 ELSE 1000
    IN  [i \in 1..width |-> digit((n \div pow(width - i)) % 10)]

\* a datetime written in the pattern fmt
Stamp(dt, fmt) ==
    IF fmt = DefaultFmt
    THEN Padded(dt.year, 4) \o <<"-">> \o Padded(dt.month, 2) \o <<"-">>
             \o Padded(dt.day, 2) \o <<" ">> \o Padded(dt.hour, 2) \o <<":">>
             \o Padded(dt.minute, 2) \o <<":">> \o Padded(dt.second, 2)
    ELSE Padded(dt.day, 2) \o <<"/">> \o Padded(dt.month, 2) \o <<"/">>
             \o Padded(dt.year, 4)

\* C22: BETWEEN_AND given two date-time bounds returns "col BETWEEN left AND
\* right" with both bounds written in the pattern fmt (by default
\* %Y-%m-%d %H:%M:%S), the bounds in the order given whichever is later, and
\* without an error when the left bound is the later one.
C22_BetweenKeepsOrder ==
    LET a == call.args
    IN  (/\ call.op = "BETWEEN_AND"
         /\ a.left_value.type = "datetime" /\ a.right_value.type = "datetime"
         /\ a.column.type \in {"ColumnType", "AggregateFunctionType", "str"}) =>
            /\ ret.err = NoError
            /\ ret.value.type = "OperatorMethod"
            /\ ret.value.query =
                   (CASE a.column.type = "ColumnType" -> a.column.name
                      [] a.column.type = "AggregateFunctionType" -> AggregateGet(a.column)
                      [] OTHER -> a.column.s)
                   \o <<" BETWEEN ">> \o Stamp(a.left_value, a.fmt)
                   \o <<" AND ">> \o Stamp(a.right_value, a.fmt)

\* swapped date-time bounds were rendered with the default pattern
C22_Witness ==
    /\ call.op = "BETWEEN_AND"
    /\ call.args.left_value.type = "datetime" /\ call.args.right_value.type = "datetime"
    /\ Earlier(call.args.right_value, call.args.left_value)
    /\ call.args.fmt = DefaultFmt
    /\ ret.err = NoError
    /\ ret.value.query = <<"A", " BETWEEN ", "2", "0", "2", "4", "-", "0", "1", "-", "0",
                           "2", " ", "0", "3", ":", "4", "0", ":", "0", "5", " AND ",
                           "2", "0", "2", "3", "-", "1", "2", "-", "3", "1", " ", "2",
                           "3", ":", "5", "9", ":", "5", "8">>

\* the text of a condition inside a list given to Where
ConditionText(condition) ==
    IF condition.type = "OperatorMethod" THEN condition.query ELSE condition.s

\* C23: a facade SELECT, UPDATE or DELETE whose WHERE is a list of conditions
\* succeeds when the driver does, and the statement it sends has the clause
\* "WHERE " followed by the conditions of the list in list order.
C23_WhereAcceptsList ==
    (/\ call.op \in {"SELECT", "UPDATE", "DELETE"}
     /\ call.args.WHERE.type = "list"
     /\ call.args.fault = "none") =>
        LET items == call.args.WHERE.items
        IN  /\ ret.err = NoError
            /\ Len(Executed) = 1
            /\ ClauseOf(Executed[1], "WHERE ") \in
                   {<<"WHERE ">> \o Join([i \in 1..Len(items) |-> ConditionText(items[i])],
                                         sep) : sep \in {<<", ">>, <<",\n">>, <<" ">>}}

\* the text of one column operand: a name, a descriptor's name, an aggregate
OperandText(x) ==
    CASE x.type = "ColumnType" -> x.name
      [] x.type = "AggregateFunctionType" -> AggregateGet(x)
      [] OTHER -> x.s

\* C24: a facade SELECT whose other arguments are valid and whose GROUP_BY is
\* one column (a name of any length or a descriptor) sends the group clause
\* "GROUP BY " followed by that column's name, and one whose ORDER_BY is one
\* column or aggregate sends the order clause "ORDER BY " followed by that
\* operand's text.
C24_OneColumnGroupOrder ==
    LET a == call.args
    IN  (/\ call.op = "SELECT"
         /\ a.fault = "none"
         /\ a.COLUMNS.type = "list"
         /\ a.WHERE.type # "list"
         /\ a.JOIN.type = "tuple" => Len(a.JOIN.items) = 5) =>
            /\ a.GROUP_BY # PyNone =>
                   /\ ret.err = NoError
                   /\ Len(Executed) = 1
                   /\ ClauseOf(Executed[1], "GROUP BY ")
                          = <<"GROUP BY ">> \o OperandText(a.GROUP_BY)
            /\ a.ORDER_BY # PyNone =>
                   /\ ret.err = NoError
                   /\ Len(Executed) = 1
                   /\ ClauseOf(Executed[1], "ORDER BY ")
                          = <<"ORDER BY ">> \o OperandText(a.ORDER_BY)

\* the driver raised in the last operation: the call that fault names was made
DriverRaised ==
    /\ call.op \in FacadeOps \cup {"EXECUTE"}
    /\ call.args.fault # "none"
    /\ \E i \in 1..Len(DriverCalls) : DriverCalls[i] = call.args.fault

\* C25: when the driver raises during execute or fetch inside a facade
\* operation, the caller gets the driver's error, the statement was handed to
\* the driver once, and the connection opened for the operation is closed
\* when the operation ends.
C25_DriverErrorCloses ==
    DriverRaised =>
        /\ ret.err = "DriverError"
        /\ Len(Executed) = 1
        /\ conn = "closed"

\* the part of C25 about the error and the single attempt
C25_PropagatesOnce ==
    DriverRaised =>
        /\ ret.err = "DriverError"
        /\ Len(Executed) = 1

====
